---- MODULE Spec2Model ----
(***************************************************************************)
(* Git City: the request handlers, the achievement backfill script and the *)
(* relational constraints of the database they run against.  The database  *)
(* tables are the shared state; the checkout and the auth callback are     *)
(* processes whose steps are their database statements, so two requests    *)
(* interleave as two serverless invocations do; a loadout POST is one step.*)
(***************************************************************************)
EXTENDS Integers, Sequences, FiniteSets, TLC

NULL == "null"

\* null where an id (a number) is expected
NoId == 0

\* null provider_tx_id
NoTx == << >>
NoUser == "anon"

\* ------------------------------------------------------------------------
\* Identities
\* ------------------------------------------------------------------------

\* Authenticated sessions: two different auth users whose GitHub user_name
\* lower-cases to the same login.
Users == {"u1", "u2"}

\* The auth users that sign in through the callback: a third one is "Bob".
AuthUsers == Users \cup {"u3"}

UserName(u) ==
  CASE u = "u1" -> "Alice"
    [] u = "u2" -> "alice"
    [] u = "u3" -> "Bob"
    [] OTHER -> ""

\* String.prototype.toLowerCase on the names used here.
ToLowerCase(s) ==
  CASE s = "Alice" -> "alice"
    [] s = "ALICE" -> "alice"
    [] s = "Bob" -> "bob"
    [] s = "Carol" -> "carol"
    [] OTHER -> s

\* (user.user_metadata.user_name ?? preferred_username ?? "").toLowerCase()
GithubLogin(u) == IF u = NoUser THEN "" ELSE ToLowerCase(UserName(u))

\* Rows of the developers table (bigint ids).
Devs == {1, 2}

DevLogin(d) == IF d = 1 THEN "alice" ELSE IF d = 2 THEN "bob" ELSE "carol"

\* The users that can have claimed developer d: those whose login it is.
Claimants(d) == {u \in Users : GithubLogin(u) = DevLogin(d)}

\* ------------------------------------------------------------------------
\* Catalogs
\* ------------------------------------------------------------------------

\* items.id of the active items used here (seed of the items table).
Items == {"billboard", "flag", "custom_color", "helipad"}

\* item_id values a request body can carry: catalog items and an unknown id.
BodyItems == {"billboard", "flag", "ghost"}

\* provider values a request body can carry.
BodyProviders == {"stripe", "abacatepay", "paypal"}

\* The achievements table in sort_order.  Item rewards follow
\* ACHIEVEMENT_ITEMS; the raid achievements are exclusive badges.
Achievements ==
  << [id |-> "first_push", category |-> "commits", threshold |-> 1,
      reward_type |-> "unlock_item", reward_item_id |-> "flag"],
     [id |-> "committed",  category |-> "commits", threshold |-> 100,
      reward_type |-> "unlock_item", reward_item_id |-> "custom_color"],
     [id |-> "recruiter",  category |-> "social",  threshold |-> 3,
      reward_type |-> "unlock_item", reward_item_id |-> "helipad"],
     [id |-> "pickpocket", category |-> "raid",    threshold |-> 100,
      reward_type |-> "exclusive_badge", reward_item_id |-> NULL] >>

\* ------------------------------------------------------------------------
\* Bounds of the model
\* ------------------------------------------------------------------------
MaxCheckouts == 2
MaxRuns == 2
MaxCallbacks == 3
MaxClock == 2
MaxRaids == 2
MaxTags == 2
MaxKudos == 2

VARIABLES
  developers,     \* developers table: [Devs -> row]
  purchases,      \* purchases table: set of rows
  nextPurchase,   \* next purchases.id
  lastCheckout,   \* checkout rate-limit map: users with an entry under 10 s old
  checkout,       \* checkout requests in flight: [CheckoutProcs -> locals]
  sessions,       \* payment sessions / PIX codes the providers have created
  confirmed,      \* purchase ids a payment provider has confirmed
  achievements,   \* developer_achievements: set of <<developer_id, achievement_id>>
  feed,           \* activity_feed: sequence of rows
  script,         \* the achievement backfill script's position and locals
  scriptRuns,     \* number of runs of the script started
  clock,          \* the server's time (new Date())
  auth,           \* auth callbacks in flight: [AuthProcs -> locals]
  claimLog,       \* the claim updates that changed a row, in order
  authRuns,       \* number of auth callbacks started
  customizations, \* developer_customizations: set of rows
  raids,          \* raids table: set of rows
  raid_tags,      \* raid_tags table: set of rows
  nextRaid,       \* number of raids ids drawn, plus one
  nextTag,        \* number of raid_tags ids drawn, plus one
  history,        \* ids of the active_tag of the last raid history response
  view,           \* what the last read of purchases or customizations returned
  scene,          \* the building last rendered: its props and the items drawn
  developer_kudos, \* developer_kudos table: set of rows
  kudos,          \* kudos requests in flight: [KudosProcs -> locals]
  kudosWindow,    \* kudos rate-limit map: users with an entry under 1 s old
  kudosRuns,      \* number of kudos requests that passed the rate limit
  out             \* HTTP status the last step answered with (NoOut: none)

authVars == << clock, auth, claimLog, authRuns >>
raidVars == << raids, raid_tags, nextRaid, nextTag, history >>
gameVars == << customizations, raidVars >>
readVars == << view >>
sceneVars == << scene >>
kudosVars == << developer_kudos, kudos, kudosWindow, kudosRuns >>
moreVars == << readVars, sceneVars, kudosVars >>
shopVars == << purchases, nextPurchase, lastCheckout, checkout, sessions, confirmed >>
scriptVars == << achievements, feed, script, scriptRuns >>

vars == << developers, shopVars, scriptVars, authVars, gameVars, moreVars, out >>

\* The step sent no response.
NoOut == 0

\* ------------------------------------------------------------------------
\* purchases table and its constraints
\* ------------------------------------------------------------------------

PurchasesOf(d, i, st) ==
  {r \in purchases : r.developer_id = d /\ r.item_id = i /\ r.status = st}

\* Would the table `rows` satisfy a unique index on (developer_id, item_id)
\* restricted to the rows with status = 'completed'?
UniqueCompletedAbsent(rows) == TRUE

\* create unique index idx_purchases_unique_completed
\*   on purchases(developer_id, item_id) where status = 'completed'
UniqueCompleted(rows) ==
  \A r1, r2 \in rows :
    (r1.status = "completed" /\ r2.status = "completed"
     /\ r1.developer_id = r2.developer_id /\ r1.item_id = r2.item_id)
      => r1.id = r2.id

\* provider_tx_id text unique (NULLs never conflict)
UniqueProviderTx(rows) ==
  \A r1, r2 \in rows :
    (r1.provider_tx_id # NoTx /\ r1.provider_tx_id = r2.provider_tx_id)
      => r1.id = r2.id

\* The constraints a write to purchases must leave satisfied.
PurchasesOK(rows) == UniqueCompleted(rows) /\ UniqueProviderTx(rows)

\* A new row as the database fills it in (id from gen_random_uuid()).
PurchaseRow(id, d, i, prov, tx, st) ==
  [id |-> id, developer_id |-> d, item_id |-> i, provider |-> prov,
   provider_tx_id |-> tx, status |-> st, gifted_to |-> NoId]

\* ------------------------------------------------------------------------
\* Billboard slots (checkout route)
\* ------------------------------------------------------------------------

\* Math.round(baseW + 5), baseW = 14 + min(1, public_repos / 100) * 16;
\* Math.round rounds halves up.
BuildingW(public_repos) ==
  IF public_repos >= 100 THEN 35
  ELSE (1900 + 16 * public_repos + 50) \div 100

\* Math.round(12 + 10)
BuildingD == 22

\* k * (minBillArea * 6) <= 2 * (w + d) * h  with
\* h = max(30, 12 + sqrt(contributions) * 3), s = w + d, in integers:
\*   480 k <= 60 s                     when 12 + 3 sqrt(c) <= 30
\*   80 k - 4 s <= s sqrt(c)           otherwise
SlotFits(k, s, c) ==
  IF c <= 36 THEN 480 * k <= 60 * s
  ELSE LET lhs == 80 * k - 4 * s IN lhs <= 0 \/ lhs * lhs <= s * s * c

MaxOfSet(S) == CHOOSE x \in S : \A y \in S : y <= x

\* maxSlots = Math.max(1, Math.floor(totalFaceArea / (minBillArea * 6)))
MaxSlots(dev) ==
  LET s == BuildingW(dev.public_repos) + BuildingD
      c == dev.contributions
      floorSlots == MaxOfSet({k \in 0..((s * (4 + c)) \div 80 + 1) : SlotFits(k, s, c)})
  IN IF floorSlots > 1 THEN floorSlots ELSE 1

\* ------------------------------------------------------------------------
\* POST /api/checkout
\* ------------------------------------------------------------------------
CheckoutProcs == {"c1", "c2"}

\* PostgREST .single() / .maybeSingle(): the row when exactly one matches,
\* otherwise data is null (the empty set here).
MaybeSingle(S) == IF Cardinality(S) = 1 THEN S ELSE {}

\* The id of the row of a .maybeSingle() result, NoId for null.
IdOf(S) == IF S = {} THEN NoId ELSE (CHOOSE r \in S : TRUE).id

\* developers row with the given github_login (.single()).
DevByLogin(login) ==
  LET ds == MaybeSingle({d \in Devs : developers[d].github_login = login})
  IN IF ds = {} THEN NoId ELSE CHOOSE d \in ds : TRUE

IdleCheckout ==
  [pc |-> "idle", user |-> NoUser, dev |-> NoId, item |-> NULL,
   provider |-> NULL, pend |-> NoId, row |-> NoId]

\* return NextResponse.json(..., { status })
Respond(p, status) ==
  /\ checkout' = [checkout EXCEPT ![p] = IdleCheckout]
  /\ out' = status

\* The handler goes on to its next statement without answering.
Goto(p, pc) ==
  /\ checkout' = [checkout EXCEPT ![p].pc = pc]
  /\ out' = NoOut

\* The ids the checkout route has drawn so far (reward rows are never deleted).
CheckoutsMade ==
  nextPurchase - 1 - Cardinality({r \in purchases : r.provider = "achievement"})

\* if (last && now - last < 10_000): lastCheckout holds the users whose
\* entry is younger than the window.
RateLimited(u) == u \in lastCheckout

\* The status the validations before the ownership check answer, 0 when the
\* request passes them all.
CheckoutValidation(u, item_id, provider) ==
  LET login == GithubLogin(u)
      d == DevByLogin(login)
  IN IF login = "" THEN 400
     ELSE IF d = NoId THEN 403
     ELSE IF ~developers[d].claimed THEN 403
     ELSE IF developers[d].claimed_by # u THEN 403
     ELSE IF item_id = NULL \/ provider \notin {"stripe", "abacatepay"} THEN 400
     ELSE IF item_id \notin Items THEN 404
     ELSE 0

\* Lines 14-91: authentication, rate limit, building ownership, body, item.
CheckoutBegin(p, u, item_id, provider) ==
  /\ checkout[p].pc = "idle"
  /\ IF u = NoUser
       THEN Respond(p, 401) /\ UNCHANGED lastCheckout
     ELSE IF RateLimited(u)
       THEN Respond(p, 429) /\ UNCHANGED lastCheckout
     ELSE /\ lastCheckout' = lastCheckout \cup {u}
          /\ LET status == CheckoutValidation(u, item_id, provider)
             IN IF status # 0
                  THEN Respond(p, status)
                  ELSE /\ checkout' = [checkout EXCEPT ![p] =
                            [pc |-> "owned", user |-> u,
                             dev |-> DevByLogin(GithubLogin(u)), item |-> item_id,
                             provider |-> provider, pend |-> NoId, row |-> NoId]]
                       /\ out' = NoOut
  /\ UNCHANGED << moreVars, developers, authVars, gameVars, purchases, nextPurchase, sessions, confirmed,
                  scriptVars >>

\* Ten seconds have passed since u's last checkout.
RateWindowPasses(u) ==
  /\ u \in lastCheckout
  /\ lastCheckout' = lastCheckout \ {u}
  /\ out' = NoOut
  /\ UNCHANGED << moreVars, developers, authVars, gameVars, purchases, nextPurchase, checkout, sessions,
                  confirmed, scriptVars >>

\* Lines 93-143: billboard slot count, or "Already owned".
CheckoutOwned(p) ==
  LET c == checkout[p] IN
  /\ c.pc = "owned"
  /\ IF c.item = "billboard"
       THEN LET billboardCount == Cardinality(PurchasesOf(c.dev, "billboard", "completed"))
                maxSlots == MaxSlots(developers[c.dev])
            IN IF billboardCount >= maxSlots
                 THEN Respond(p, 409)
                 ELSE Goto(p, "pending")
       ELSE LET existingPurchase == MaybeSingle(PurchasesOf(c.dev, c.item, "completed"))
            IN IF existingPurchase # {}
                 THEN Respond(p, 409)
                 ELSE Goto(p, "pending")
  /\ UNCHANGED << moreVars, developers, authVars, gameVars, purchases, nextPurchase, lastCheckout, sessions,
                  confirmed, scriptVars >>

\* Lines 145-154: look for a pending purchase of the same item.
CheckoutPending(p) ==
  LET c == checkout[p]
      pendingPurchase == MaybeSingle(PurchasesOf(c.dev, c.item, "pending"))
  IN
  /\ c.pc = "pending"
  /\ checkout' = [checkout EXCEPT
                    ![p].pend = IdOf(pendingPurchase),
                    ![p].pc = IF pendingPurchase = {} THEN "insert" ELSE "delete"]
  /\ out' = NoOut
  /\ UNCHANGED << moreVars, developers, authVars, gameVars, purchases, nextPurchase, lastCheckout, sessions,
                  confirmed, scriptVars >>

\* The delete of the stale row left out.
DeleteNothing(rows, id) == rows

\* sb.from("purchases").delete().eq("id", pendingPurchase.id)
DeleteById(rows, id) == {r \in rows : r.id # id}

\* Lines 154-157.
CheckoutDelete(p) ==
  /\ checkout[p].pc = "delete"
  /\ purchases' = DeleteById(purchases, checkout[p].pend)
  /\ Goto(p, "insert")
  /\ UNCHANGED << moreVars, developers, authVars, gameVars, nextPurchase, lastCheckout, sessions, confirmed,
                  scriptVars >>

\* A checkout that writes its row as already paid.
CheckoutInsertCompleted == "completed"

\* status of the row the checkout inserts (lines 174 and 195).
CheckoutInsertStatus == "pending"

\* Lines 166-181 and 187-202: create the pending purchase.
CheckoutInsert(p) ==
  LET c == checkout[p]
      row == PurchaseRow(nextPurchase, c.dev, c.item, c.provider, NoTx,
                         CheckoutInsertStatus)
  IN
  /\ c.pc = "insert"
  /\ CheckoutsMade < MaxCheckouts
  /\ IF PurchasesOK(purchases \cup {row})
       THEN /\ purchases' = purchases \cup {row}
            /\ nextPurchase' = nextPurchase + 1
            /\ checkout' = [checkout EXCEPT ![p].pc = "provider",
                                            ![p].row = nextPurchase]
            /\ out' = NoOut
       ELSE /\ Respond(p, 500)
            /\ UNCHANGED << purchases, nextPurchase >>
  /\ UNCHANGED << moreVars, developers, authVars, gameVars, lastCheckout, sessions, confirmed, scriptVars >>

\* .update({ provider_tx_id: pixId }).eq("id", purchase.id)
SetProviderTx(rows, id, tx) ==
  LET new == {IF r.id = id THEN [r EXCEPT !.provider_tx_id = tx] ELSE r : r \in rows}
  IN IF PurchasesOK(new) THEN new ELSE rows

\* Lines 183-184 and 204-219: the provider call.  It either throws (500,
\* the pending row stays) or creates a session for (developer, item).
CheckoutProvider(p, ok) ==
  LET c == checkout[p] IN
  /\ c.pc = "provider"
  /\ IF ok
       THEN /\ sessions' = sessions \cup
                 {[id |-> c.row, developer_id |-> c.dev, item_id |-> c.item]}
            /\ purchases' = IF c.provider = "abacatepay"
                              THEN SetProviderTx(purchases, c.row, <<"pix", c.row>>)
                              ELSE purchases
            /\ Respond(p, 200)
       ELSE /\ Respond(p, 500)
            /\ UNCHANGED << sessions, purchases >>
  /\ UNCHANGED << moreVars, developers, authVars, gameVars, nextPurchase, lastCheckout, confirmed, scriptVars >>

\* ------------------------------------------------------------------------
\* Payment confirmation (provider webhook)
\* ------------------------------------------------------------------------

\* The provider reports session s paid: a pending purchase of the session's
\* (developer, item) is marked completed, unless a constraint rejects it.
ConfirmPayment(s, r) ==
  LET new == (purchases \ {r}) \cup {[r EXCEPT !.status = "completed"]}
      ok == PurchasesOK(new)
  IN
  /\ s \in sessions
  /\ r \in PurchasesOf(s.developer_id, s.item_id, "pending")
  /\ sessions' = sessions \ {s}
  /\ purchases' = IF ok THEN new ELSE purchases
  /\ confirmed' = IF ok THEN confirmed \cup {r.id} ELSE confirmed
  /\ out' = NoOut
  /\ UNCHANGED << moreVars, developers, authVars, gameVars, nextPurchase, lastCheckout, checkout, scriptVars >>

\* ------------------------------------------------------------------------
\* Achievement backfill script
\* ------------------------------------------------------------------------

\* developers in the order of .order("rank")
DevOrder == << 1, 2 >>

\* Gift counts: completed purchases with gifted_to set.
GiftsSent(d) ==
  Cardinality({r \in purchases : r.status = "completed" /\ r.gifted_to # NoId
                                 /\ r.developer_id = d})

GiftsReceived(d) ==
  Cardinality({r \in purchases : r.status = "completed" /\ r.gifted_to # NoId
                                 /\ r.gifted_to = d})

\* The switch on a.category (lines 125-133).
Qualifies(a, d) ==
  LET dev == developers[d] IN
  CASE a.category = "commits" -> dev.contributions >= a.threshold
    [] a.category = "repos" -> dev.public_repos >= a.threshold
    [] a.category = "stars" -> dev.total_stars >= a.threshold
    [] a.category = "social" -> dev.referral_count >= a.threshold
    [] a.category = "kudos" -> dev.kudos_count >= a.threshold
    [] a.category = "gifts_sent" -> GiftsSent(d) >= a.threshold
    [] a.category = "gifts_received" -> GiftsReceived(d) >= a.threshold
    [] OTHER -> FALSE

\* A script that does not look at the existing unlocks.
ExistingNone == {}

\* existingSet: the (developer, achievement) pairs already unlocked
\* (lines 59-65).
ExistingSet == achievements

\* newUnlocks of one developer (lines 118-136), in sort_order.
NewUnlocks(d) ==
  SelectSeq(Achievements,
            LAMBDA a : << d, a.id >> \notin ExistingSet /\ Qualifies(a, d))

RECURSIVE Flatten(_)
Flatten(ss) == IF ss = << >> THEN << >> ELSE Head(ss) \o Flatten(Tail(ss))

SeqMap(f(_), s) == [i \in 1..Len(s) |-> f(s[i])]

Range(s) == {s[i] : i \in 1..Len(s)}

\* unlockRows (line 143)
UnlockRows ==
  UNION {{<< d, a.id >> : a \in Range(NewUnlocks(d))} : d \in Devs}

\* purchaseRows of one developer (lines 145-155)
RewardRows(d) ==
  LET rewarded == SelectSeq(NewUnlocks(d),
                    LAMBDA a : a.reward_type = "unlock_item" /\ a.reward_item_id # NULL)
      row(a) == [developer_id |-> d, item_id |-> a.reward_item_id,
                 achievement_id |-> a.id]
  IN SeqMap(row, rewarded)

PurchaseRows ==
  LET perDev(d) == RewardRows(d) IN Flatten(SeqMap(perDev, DevOrder))

\* feedEvents: one per developer with new unlocks (lines 158-165)
FeedEvents ==
  LET unlocked == SelectSeq(DevOrder, LAMBDA d : NewUnlocks(d) # << >>)
      event(d) == [event_type |-> "achievement_unlocked", actor_id |-> d,
                   count |-> Len(NewUnlocks(d))]
  IN SeqMap(event, unlocked)

\* What the tables hold of the script's making: the unlocks, the reward
\* purchases and the achievement_unlocked feed events.
ScriptOutput(ach, rows, events) ==
  [unlocked |-> ach,
   rewards |-> {r.id : r \in {x \in rows : x.provider = "achievement"}},
   events |-> Len(SelectSeq(events, LAMBDA e : e.event_type = "achievement_unlocked"))]

IdleScript(snap) ==
  [pc |-> "idle", unlockRows |-> {}, purchaseRows |-> << >>,
   feedEvents |-> << >>, snap |-> snap]

\* Steps 1-5 (lines 34-177): load the tables and compute the rows to write.
ScriptLoad ==
  /\ script.pc = "idle"
  /\ scriptRuns < MaxRuns
  /\ scriptRuns' = scriptRuns + 1
  /\ script' = IF UnlockRows = {}
                 THEN IdleScript(ScriptOutput(achievements, purchases, feed))
                 ELSE [pc |-> "upsert", unlockRows |-> UnlockRows,
                       purchaseRows |-> PurchaseRows, feedEvents |-> FeedEvents,
                       snap |-> script.snap]
  /\ out' = NoOut
  /\ UNCHANGED << moreVars, developers, authVars, gameVars, shopVars, achievements, feed >>

\* Step 6 (lines 181-185): upsert on (developer_id, achievement_id).
ScriptUpsert ==
  /\ script.pc = "upsert"
  /\ achievements' = achievements \cup script.unlockRows
  /\ script' = [script EXCEPT !.pc = IF script.purchaseRows # << >>
                                       THEN "grant" ELSE "feed"]
  /\ out' = NoOut
  /\ UNCHANGED << moreVars, developers, authVars, gameVars, shopVars, feed, scriptRuns >>

\* Lines 187-201: insert the reward purchases one by one; a rejected insert
\* is counted as skipped.
ScriptGrant ==
  LET g == Head(script.purchaseRows)
      row == PurchaseRow(nextPurchase, g.developer_id, g.item_id, "achievement",
                         << "achievement", g.developer_id, g.achievement_id >>,
                         "completed")
      rest == Tail(script.purchaseRows)
  IN
  /\ script.pc = "grant"
  /\ IF PurchasesOK(purchases \cup {row})
       THEN purchases' = purchases \cup {row} /\ nextPurchase' = nextPurchase + 1
       ELSE UNCHANGED << purchases, nextPurchase >>
  /\ script' = [script EXCEPT !.purchaseRows = rest,
                              !.pc = IF rest = << >> THEN "feed" ELSE "grant"]
  /\ out' = NoOut
  /\ UNCHANGED << moreVars, developers, authVars, gameVars, lastCheckout, checkout, sessions, confirmed,
                  achievements, feed, scriptRuns >>

\* Lines 203-206: insert the feed events.
ScriptFeed ==
  /\ script.pc = "feed"
  /\ feed' = feed \o script.feedEvents
  /\ script' = IdleScript(ScriptOutput(achievements, purchases,
                                       feed \o script.feedEvents))
  /\ out' = NoOut
  /\ UNCHANGED << moreVars, developers, authVars, gameVars, shopVars, achievements, scriptRuns >>

\* ------------------------------------------------------------------------
\* The auth callback (GET): claim, referral, achievement check
\* ------------------------------------------------------------------------
AuthProcs == {"a1", "a2"}

\* ?ref= values: none, a login in another letter case, a login.
Refs == {NULL, "Alice", "bob"}

IdleAuth ==
  [pc |-> "idle", user |-> NoUser, login |-> "", ref |-> NULL, dev |-> NoId,
   referral_count |-> 0, referrer |-> NoId]

\* NextResponse.redirect(...)
Redirect(p) ==
  /\ auth' = [auth EXCEPT ![p] = IdleAuth]
  /\ out' = 307

AuthGoto(p, pc) ==
  /\ auth' = [auth EXCEPT ![p].pc = pc]
  /\ out' = NoOut

\* Lines 44-64: no code, or a failed exchange, redirects with an error;
\* a user without a login skips the claim and the v2 features.
AuthBegin(p, code, u, ref) ==
  /\ auth[p].pc = "idle"
  /\ authRuns < MaxCallbacks
  /\ authRuns' = authRuns + 1
  /\ IF ~code \/ u = NoUser \/ GithubLogin(u) = ""
       THEN Redirect(p)
       ELSE /\ auth' = [auth EXCEPT ![p] = [IdleAuth EXCEPT !.pc = "claim",
                           !.user = u, !.login = GithubLogin(u), !.ref = ref]]
            /\ out' = NoOut
  /\ UNCHANGED << moreVars, developers, gameVars, shopVars, scriptVars, clock, claimLog >>

\* An update that claims the row whatever its claimed column says.
ClaimFilterAbsent(row) == TRUE

\* .eq("claimed", false)
ClaimFilter(row) == row.claimed = FALSE

\* The rows the claim update changes (lines 68-79).
ClaimTargets(login) ==
  {d \in Devs : developers[d].github_login = login /\ ClaimFilter(developers[d])}

RECURSIVE SetToSeq(_)
SetToSeq(S) ==
  IF S = {} THEN << >>
  ELSE LET x == CHOOSE y \in S : TRUE IN << x >> \o SetToSeq(S \ {x})

\* Lines 68-79: one conditional UPDATE statement.
AuthClaim(p) ==
  LET a == auth[p]
      hit == ClaimTargets(a.login)
      entry(d) == [developer_id |-> d, claimed_by |-> a.user, claimed_at |-> clock]
  IN
  /\ a.pc = "claim"
  /\ developers' = [d \in Devs |->
       IF d \in hit
         THEN [developers[d] EXCEPT !.claimed = TRUE, !.claimed_by = a.user,
                                    !.claimed_at = clock]
         ELSE developers[d]]
  /\ claimLog' = claimLog \o SeqMap(entry, SetToSeq(hit))
  /\ AuthGoto(p, "fetch")
  /\ UNCHANGED << moreVars, gameVars, shopVars, scriptVars, clock, authRuns >>

\* Lines 84-92: fetch the developer row, test the ref parameter.
AuthFetch(p) ==
  LET a == auth[p]
      d == DevByLogin(a.login)
  IN
  /\ a.pc = "fetch"
  /\ IF d = NoId
       THEN Redirect(p)
       ELSE /\ auth' = [auth EXCEPT ![p].dev = d,
                          ![p].referral_count = developers[d].referral_count,
                          ![p].pc = IF /\ a.ref # NULL
                                       /\ a.ref # a.login
                                       /\ developers[d].referred_by = NULL
                                      THEN "referrer" ELSE "check"]
            /\ out' = NoOut
  /\ UNCHANGED << moreVars, developers, gameVars, shopVars, scriptVars, clock, claimLog, authRuns >>

\* Lines 93-99: look the referrer up by ref.toLowerCase().
AuthReferrer(p) ==
  LET r == DevByLogin(ToLowerCase(auth[p].ref)) IN
  /\ auth[p].pc = "referrer"
  /\ auth' = [auth EXCEPT ![p].referrer = r,
                          ![p].pc = IF r = NoId THEN "check" ELSE "setref"]
  /\ out' = NoOut
  /\ UNCHANGED << moreVars, developers, gameVars, shopVars, scriptVars, clock, claimLog, authRuns >>

\* Lines 101-104: update referred_by of the developer.
AuthSetReferredBy(p) ==
  LET a == auth[p] IN
  /\ a.pc = "setref"
  /\ developers' = [developers EXCEPT ![a.dev].referred_by =
                                          developers[a.referrer].github_login]
  /\ AuthGoto(p, "incr")
  /\ UNCHANGED << moreVars, gameVars, shopVars, scriptVars, clock, claimLog, authRuns >>

\* Line 106: rpc increment_referral_count(referrer_dev_id).
IncrementReferralCount(p) ==
  LET a == auth[p] IN
  /\ a.pc = "incr"
  /\ developers' = [developers EXCEPT ![a.referrer].referral_count = @ + 1]
  /\ AuthGoto(p, "feed")
  /\ UNCHANGED << moreVars, gameVars, shopVars, scriptVars, clock, claimLog, authRuns >>

\* Lines 108-113: the referral feed event.
AuthFeed(p) ==
  LET a == auth[p] IN
  /\ a.pc = "feed"
  /\ feed' = Append(feed, [event_type |-> "referral", actor_id |-> a.referrer,
                           target_id |-> a.dev])
  /\ AuthGoto(p, "refcheck")
  /\ UNCHANGED << moreVars, developers, gameVars, shopVars, achievements, script, scriptRuns,
                  clock, claimLog, authRuns >>

\* checkAchievements(developerId, stats, login): the achievements whose
\* threshold the given stats reach are unlocked; an unlocked one stays.
CheckAchievements(d, referral_count) ==
  LET stats == [developers[d] EXCEPT !.referral_count = referral_count]
      reached(a) ==
        CASE a.category = "commits" -> stats.contributions >= a.threshold
          [] a.category = "repos" -> stats.public_repos >= a.threshold
          [] a.category = "stars" -> stats.total_stars >= a.threshold
          [] a.category = "social" -> stats.referral_count >= a.threshold
          [] a.category = "kudos" -> stats.kudos_count >= a.threshold
          [] a.category = "gifts_sent" -> GiftsSent(d) >= a.threshold
          [] a.category = "gifts_received" -> GiftsReceived(d) >= a.threshold
          [] OTHER -> FALSE
  IN achievements \cup {<< d, a.id >> : a \in {x \in Range(Achievements) : reached(x)}}

\* Lines 115-135: the referrer's row is read again and checked.
AuthReferrerCheck(p) ==
  LET a == auth[p] IN
  /\ a.pc = "refcheck"
  /\ achievements' = CheckAchievements(a.referrer,
                                       developers[a.referrer].referral_count)
  /\ AuthGoto(p, "check")
  /\ UNCHANGED << moreVars, developers, gameVars, shopVars, feed, script, scriptRuns,
                  clock, claimLog, authRuns >>

\* Lines 139-168: the check for this developer with the stats fetched at
\* lines 84-88, then the redirect.
AuthCheck(p) ==
  LET a == auth[p] IN
  /\ a.pc = "check"
  /\ achievements' = CheckAchievements(a.dev, a.referral_count)
  /\ Redirect(p)
  /\ UNCHANGED << moreVars, developers, gameVars, shopVars, feed, script, scriptRuns,
                  clock, claimLog, authRuns >>

\* Time passes.
Tick ==
  /\ clock < MaxClock
  /\ clock' = clock + 1
  /\ out' = NoOut
  /\ UNCHANGED << moreVars, developers, gameVars, shopVars, scriptVars, auth, claimLog, authRuns >>

\* ------------------------------------------------------------------------
\* Loadouts: POST /api/loadout and POST /api/raid/loadout
\* ------------------------------------------------------------------------

\* ZONE_ITEMS
ZONE_ITEMS(zone) ==
  CASE zone = "crown" -> {"flag", "helipad", "spire", "satellite_dish", "crown_item"}
    [] zone = "roof" -> {"antenna_array", "rooftop_garden", "rooftop_fire", "pool_party"}
    [] zone = "aura" -> {"neon_trim", "spotlight", "hologram_ring", "lightning_aura"}
    [] OTHER -> {}

Zones == << "crown", "roof", "aura" >>

\* The items of type raid_vehicle and raid_tag.
RAID_VEHICLE_ITEMS == {"raid_helicopter", "raid_drone", "raid_rocket"}
RAID_TAG_ITEMS == {"tag_neon", "tag_fire", "tag_gold"}

\* Values a loadout body can carry for a zone (NULL: null or absent).
BodyZoneItems == {NULL, "flag", "helipad"}

\* Values a raid loadout body can carry (NULL: absent).
BodyVehicles == {NULL, "airplane", "raid_helicopter", "flag"}
BodyTags == {NULL, "default", "tag_neon"}

\* A handler that takes every caller for authenticated.
NotAuthenticatedNever(u) == FALSE

\* if (!user)
NotAuthenticated(u) == u = NoUser

\* A test that passes every user whose login has a developer row.
OwnsBuildingByLogin(u, d) == d # NoId

\* if (!dev || !dev.claimed || dev.claimed_by !== user.id)
OwnsBuilding(u, d) ==
  /\ d # NoId
  /\ developers[d].claimed
  /\ developers[d].claimed_by = u

\* An ownership test that every item of a body passes.
OwnedSetAnything(d) == BodyZoneItems

\* new Set(purchases.map(p => p.item_id)) of the completed purchases
OwnedSet(d) == {r.item_id : r \in {x \in purchases : x.developer_id = d
                                                      /\ x.status = "completed"}}

\* upsert(..., { onConflict: "developer_id,item_id" })
Upsert(rows, d, item_id, config) ==
  {r \in rows : ~(r.developer_id = d /\ r.item_id = item_id)}
    \cup {[developer_id |-> d, item_id |-> item_id, config |-> config]}

\* The first zone, in the order crown, roof, aura, whose item fails the
\* test; 0 if none does.
RECURSIVE FirstFailing(_, _, _)
FirstFailing(body, d, k) ==
  IF k > Len(Zones) THEN 0
  ELSE LET itemId == body[Zones[k]] IN
       IF itemId # NULL /\ (itemId \notin ZONE_ITEMS(Zones[k]) \/ itemId \notin OwnedSet(d))
         THEN k
         ELSE FirstFailing(body, d, k + 1)

\* POST /api/loadout
LoadoutPost(u, body) ==
  LET d == DevByLogin(GithubLogin(u))
      k == FirstFailing(body, d, 1)
  IN
  /\ IF NotAuthenticated(u)
       THEN out' = 401 /\ UNCHANGED customizations
       ELSE IF ~OwnsBuilding(u, d)
       THEN out' = 403 /\ UNCHANGED customizations
       ELSE IF k # 0
       THEN /\ out' = IF body[Zones[k]] \notin ZONE_ITEMS(Zones[k]) THEN 400 ELSE 403
            /\ UNCHANGED customizations
       ELSE /\ customizations' = Upsert(customizations, d, "loadout", body)
            /\ out' = 200
  /\ UNCHANGED << moreVars, developers, shopVars, scriptVars, authVars, raidVars >>

\* current.vehicle ?? "airplane", current.tag ?? "default"
CurrentRaidLoadout(d) ==
  LET cur == MaybeSingle({r \in customizations : r.developer_id = d
                                                  /\ r.item_id = "raid_loadout"})
  IN IF cur = {} THEN [vehicle |-> "airplane", tag |-> "default"]
     ELSE (CHOOSE r \in cur : TRUE).config

\* POST /api/raid/loadout
RaidLoadoutPost(u, vehicle, tag) ==
  LET d == DevByLogin(GithubLogin(u))
      owned == OwnedSet(d)
      current == CurrentRaidLoadout(d)
      vehicleOk == \/ vehicle \in {NULL, "airplane"}
                   \/ vehicle \in RAID_VEHICLE_ITEMS /\ vehicle \in owned
      tagOk == \/ tag \in {NULL, "default"}
               \/ tag \in RAID_TAG_ITEMS /\ tag \in owned
      config == [vehicle |-> IF vehicle = NULL THEN current.vehicle ELSE vehicle,
                 tag |-> IF tag = NULL THEN current.tag ELSE tag]
  IN
  /\ IF NotAuthenticated(u)
       THEN out' = 401 /\ UNCHANGED customizations
       ELSE IF ~OwnsBuilding(u, d)
       THEN out' = 403 /\ UNCHANGED customizations
       ELSE IF ~vehicleOk \/ ~tagOk
       THEN out' = 403 /\ UNCHANGED customizations
       ELSE /\ customizations' = Upsert(customizations, d, "raid_loadout", config)
            /\ out' = 200
  /\ UNCHANGED << moreVars, developers, shopVars, scriptVars, authVars, raidVars >>

\* ------------------------------------------------------------------------
\* Raids: the raids and raid_tags tables, GET /api/raid/history
\* ------------------------------------------------------------------------

\* A raids table without the check constraint.
RaidsNoSelfAbsent(row) == TRUE

\* CONSTRAINT raids_no_self CHECK (attacker_id != defender_id)
RaidsNoSelf(row) == row.attacker_id # row.defender_id

\* A raid_tags table without the unique index.
TagsBuildingActiveAbsent(rows) == TRUE

\* UNIQUE INDEX idx_raid_tags_building_active ON raid_tags (building_id)
\* WHERE active = true
TagsBuildingActive(rows) ==
  \A r1, r2 \in rows :
    (r1.active /\ r2.active /\ r1.building_id = r2.building_id) => r1.id = r2.id

\* INSERT INTO raids: 201, or 400 on a check violation.
InsertRaid(attacker, defender) ==
  LET row == [id |-> nextRaid, attacker_id |-> attacker, defender_id |-> defender]
  IN
  /\ nextRaid <= MaxRaids
  /\ IF RaidsNoSelf(row)
       THEN raids' = raids \cup {row} /\ nextRaid' = nextRaid + 1 /\ out' = 201
       ELSE UNCHANGED << raids, nextRaid >> /\ out' = 400
  /\ UNCHANGED << moreVars, developers, shopVars, scriptVars, authVars, customizations,
                  raid_tags, nextTag, history >>

\* UPDATE raids SET attacker_id, defender_id WHERE id: 204, or 400.
UpdateRaid(id, attacker, defender) ==
  LET new == {IF r.id = id THEN [r EXCEPT !.attacker_id = attacker,
                                          !.defender_id = defender]
              ELSE r : r \in raids}
  IN
  /\ \E r \in raids : r.id = id
  /\ IF \A r \in new : RaidsNoSelf(r)
       THEN raids' = new /\ out' = 204
       ELSE UNCHANGED raids /\ out' = 400
  /\ UNCHANGED << moreVars, developers, shopVars, scriptVars, authVars, customizations,
                  raid_tags, nextRaid, nextTag, history >>

\* INSERT INTO raid_tags (raid_id references raids): 201, or 409 on a
\* unique violation.
InsertTag(raid, building, active) ==
  LET row == [id |-> nextTag, raid_id |-> raid.id, building_id |-> building,
              active |-> active]
  IN
  /\ nextTag <= MaxTags
  /\ raid \in raids
  /\ IF TagsBuildingActive(raid_tags \cup {row})
       THEN raid_tags' = raid_tags \cup {row} /\ nextTag' = nextTag + 1 /\ out' = 201
       ELSE UNCHANGED << raid_tags, nextTag >> /\ out' = 409
  /\ UNCHANGED << moreVars, developers, shopVars, scriptVars, authVars, customizations,
                  raids, nextRaid, history >>

\* UPDATE raid_tags SET active WHERE id: 204, or 409.
UpdateTag(id, active) ==
  LET new == {IF r.id = id THEN [r EXCEPT !.active = active] ELSE r : r \in raid_tags}
  IN
  /\ \E r \in raid_tags : r.id = id
  /\ IF TagsBuildingActive(new)
       THEN raid_tags' = new /\ out' = 204
       ELSE UNCHANGED raid_tags /\ out' = 409
  /\ UNCHANGED << moreVars, developers, shopVars, scriptVars, authVars, customizations,
                  raids, nextRaid, nextTag, history >>

\* .eq("building_id", devId).eq("active", true).order("created_at",
\* { ascending: false }).limit(1).maybeSingle()
ActiveTag(devId) ==
  LET rows == {r \in raid_tags : r.building_id = devId /\ r.active}
  IN {r \in rows : \A q \in rows : q.id <= r.id}

\* GET /api/raid/history?developer_id=
RaidHistory(devId) ==
  /\ history' = {t.id : t \in ActiveTag(devId)}
  /\ out' = 200
  /\ UNCHANGED << moreVars, developers, shopVars, scriptVars, authVars, customizations,
                  raids, raid_tags, nextRaid, nextTag >>

\* ------------------------------------------------------------------------
\* Reads of purchases and developer_customizations
\* ------------------------------------------------------------------------

\* Nothing has been read.
NoView == [path |-> "none", caller |-> NoUser, rows |-> {}]

\* The policies 005_tighten_rls.sql drops: "Public read ..." (using true).
PublicReads(u, d) == TRUE

\* "Owner reads own purchases" / "Owner reads own customizations":
\* auth.uid() is not null and developer_id in
\*   (select id from developers where claimed_by = auth.uid())
OwnerReads(u, d) ==
  /\ u # NoUser
  /\ d \in {x \in Devs : developers[x].claimed_by = u}

\* [table row -> what a response discloses of it]
Disclosed(d, content) == [developer_id |-> d, content |-> content]

\* select * from purchases, as the caller (anon or authenticated key).
SelectPurchases(u) ==
  /\ view' = [path |-> "purchases", caller |-> u,
              rows |-> {Disclosed(r.developer_id, r) :
                          r \in {x \in purchases : OwnerReads(u, x.developer_id)}}]
  /\ out' = 200
  /\ UNCHANGED << developers, shopVars, scriptVars, authVars, gameVars, sceneVars, kudosVars >>

\* select * from developer_customizations, as the caller.
SelectCustomizations(u) ==
  /\ view' = [path |-> "developer_customizations", caller |-> u,
              rows |-> {Disclosed(r.developer_id, r) :
                          r \in {x \in customizations : OwnerReads(u, x.developer_id)}}]
  /\ out' = 200
  /\ UNCHANGED << developers, shopVars, scriptVars, authVars, gameVars, sceneVars, kudosVars >>

\* The row of a developer's customization with the given item_id
\* (.maybeSingle()).
CustomizationOf(d, item_id) ==
  MaybeSingle({r \in customizations : r.developer_id = d /\ r.item_id = item_id})

\* GET /api/loadout?developer_id= (NoId: the parameter is missing)
LoadoutGet(u, devId) ==
  /\ IF devId = NoId
       THEN view' = [path |-> "loadout", caller |-> u, rows |-> {}] /\ out' = 400
       ELSE /\ view' = [path |-> "loadout", caller |-> u,
                        rows |-> {Disclosed(r.developer_id, r.config) :
                                    r \in CustomizationOf(devId, "loadout")}]
            /\ out' = 200
  /\ UNCHANGED << developers, shopVars, scriptVars, authVars, gameVars, sceneVars, kudosVars >>

\* GET /api/raid/loadout[?developer_id=]: without the parameter the
\* developer is the one with the caller's login.
RaidLoadoutGet(u, devId) ==
  LET developerId == IF devId # NoId THEN devId ELSE DevByLogin(GithubLogin(u)) IN
  /\ IF devId = NoId /\ u = NoUser
       THEN view' = [path |-> "raid_loadout", caller |-> u, rows |-> {}] /\ out' = 401
       ELSE /\ view' = [path |-> "raid_loadout", caller |-> u,
                        rows |-> IF developerId = NoId THEN {}
                                 ELSE {Disclosed(r.developer_id, r.config) :
                                         r \in CustomizationOf(developerId, "raid_loadout")}]
            /\ out' = 200
  /\ UNCHANGED << developers, shopVars, scriptVars, authVars, gameVars, sceneVars, kudosVars >>

\* GET purchase status ?purchase_id= (NoId: the parameter is missing)
PurchaseStatusGet(u, purchaseId) ==
  LET d == DevByLogin(GithubLogin(u))
      purchase == MaybeSingle({r \in purchases : r.id = purchaseId /\ r.developer_id = d})
      none == [path |-> "purchase_status", caller |-> u, rows |-> {}]
  IN
  /\ IF purchaseId = NoId THEN view' = none /\ out' = 400
     ELSE IF u = NoUser THEN view' = none /\ out' = 401
     ELSE IF d = NoId \/ purchase = {} THEN view' = none /\ out' = 404
     ELSE /\ view' = [none EXCEPT !.rows = {Disclosed(r.developer_id, r.status) :
                                              r \in purchase}]
          /\ out' = 200
  /\ UNCHANGED << developers, shopVars, scriptVars, authVars, gameVars, sceneVars, kudosVars >>

\* ------------------------------------------------------------------------
\* Rendering of the items of a building (BuildingItemEffects)
\* ------------------------------------------------------------------------

\* LEGACY_ITEMS
LEGACY_ITEMS == {"neon_outline", "particle_aura"}

\* The loadout of a building without a saved one.
NoLoadout == [crown |-> NULL, roof |-> NULL, aura |-> NULL]

NoScene == [owned_items |-> {}, saved |-> FALSE, loadout |-> NoLoadout, items |-> {}]

\* loadout && (loadout.crown || loadout.roof || loadout.aura)
HasLoadout(saved, loadout) ==
  saved /\ (loadout.crown # NULL \/ loadout.roof # NULL \/ loadout.aura # NULL)

\* crownItem, roofItem, auraItem (lines 1411-1413)
ZoneItem(zone, items, saved, loadout) ==
  IF HasLoadout(saved, loadout) THEN loadout[zone]
  ELSE IF zone = "crown" /\ "flag" \in items THEN "flag"
  ELSE NULL

\* shouldRender (lines 1415-1418)
ShouldRender(itemId, items) == itemId \in items

\* shouldRenderZone (lines 1420-1426)
ShouldRenderZone(itemId, items, saved, loadout) ==
  IF itemId \notin items THEN FALSE
  ELSE IF itemId \in ZONE_ITEMS("crown") THEN ZoneItem("crown", items, saved, loadout) = itemId
  ELSE IF itemId \in ZONE_ITEMS("roof") THEN ZoneItem("roof", items, saved, loadout) = itemId
  ELSE IF itemId \in ZONE_ITEMS("aura") THEN ZoneItem("aura", items, saved, loadout) = itemId
  ELSE TRUE

\* The items the component tests with shouldRenderZone (lines 1431-1487)
\* and with shouldRender (lines 1490-1495).
ZoneTested ==
  LEGACY_ITEMS \cup {"spotlight", "rooftop_fire", "antenna_array", "rooftop_garden",
                     "helipad", "spire", "flag", "neon_trim", "hologram_ring",
                     "lightning_aura", "satellite_dish", "crown_item", "pool_party"}
FacesTested == {"billboard", "led_banner"}

\* The effects BuildingItemEffects returns.
Rendered(items, saved, loadout) ==
  {i \in ZoneTested : ShouldRenderZone(i, items, saved, loadout)}
    \cup {i \in FacesTested : ShouldRender(i, items)}

\* owned_items of the buildings rendered here: a building owns any of these.
RenderOwnable == {"flag", "helipad", "antenna_array", "neon_trim", "neon_outline",
                  "billboard"}

\* A loadout POST /api/loadout stores for an owner of `items`: per zone null
\* or an owned item of the zone.
StorableLoadouts(items) ==
  {l \in [{"crown", "roof", "aura"} -> RenderOwnable \cup {NULL}] :
     \A z \in {"crown", "roof", "aura"} :
       l[z] = NULL \/ (l[z] \in ZONE_ITEMS(z) /\ l[z] \in items)}

\* <BuildingItemEffects building={...} />
RenderBuilding(items, saved, loadout) ==
  /\ scene' = [owned_items |-> items, saved |-> saved, loadout |-> loadout,
               items |-> Rendered(items, saved, loadout)]
  /\ out' = NoOut
  /\ UNCHANGED << developers, shopVars, scriptVars, authVars, gameVars, readVars, kudosVars >>

\* ------------------------------------------------------------------------
\* POST /api/kudos
\* ------------------------------------------------------------------------
KudosProcs == {"k1", "k2"}

\* body.receiver_login
BodyReceivers == {NULL, "Alice", "bob", "Carol", "dave"}

\* Daily kudos limit (20/day)
DailyKudosLimit == 20

IdleKudos == [pc |-> "idle", user |-> NoUser, giver |-> NoId, receiver |-> NoId,
              today |-> 0]

KudosRespond(p, status) ==
  /\ kudos' = [kudos EXCEPT ![p] = IdleKudos]
  /\ out' = status

KudosGoto(p, pc) ==
  /\ kudos' = [kudos EXCEPT ![p].pc = pc]
  /\ out' = NoOut

\* .from("developers").eq("github_login", login).single()
AnyDevByLogin(login) ==
  LET ds == MaybeSingle({d \in DOMAIN developers : developers[d].github_login = login})
  IN IF ds = {} THEN NoId ELSE CHOOSE d \in ds : TRUE

\* The status the checks on giver and receiver answer, 0 when they pass.
KudosValidation(u, receiver_login) ==
  LET giver == AnyDevByLogin(GithubLogin(u))
      receiver == AnyDevByLogin(ToLowerCase(receiver_login))
  IN IF giver = NoId THEN 403
     ELSE IF ~developers[giver].claimed THEN 403
     ELSE IF receiver = NoId THEN 404
     ELSE IF giver = receiver THEN 400
     ELSE 0

\* Lines 33-87: authentication, body, rate limit, giver, receiver.
KudosBegin(p, u, receiver_login) ==
  /\ kudos[p].pc = "idle"
  /\ IF u = NoUser
       THEN KudosRespond(p, 401) /\ UNCHANGED << kudosWindow, kudosRuns >>
     ELSE IF receiver_login = NULL
       THEN KudosRespond(p, 400) /\ UNCHANGED << kudosWindow, kudosRuns >>
     ELSE IF u \in kudosWindow
       THEN KudosRespond(p, 429) /\ UNCHANGED << kudosWindow, kudosRuns >>
     ELSE /\ kudosRuns < MaxKudos
          /\ kudosWindow' = kudosWindow \cup {u}
          /\ kudosRuns' = kudosRuns + 1
          /\ LET status == KudosValidation(u, receiver_login)
             IN IF status # 0
                  THEN KudosRespond(p, status)
                  ELSE /\ kudos' = [kudos EXCEPT ![p] =
                            [pc |-> "count", user |-> u,
                             giver |-> AnyDevByLogin(GithubLogin(u)),
                             receiver |-> AnyDevByLogin(ToLowerCase(receiver_login)),
                             today |-> 0]]
                       /\ out' = NoOut
  /\ UNCHANGED << developers, shopVars, scriptVars, authVars, gameVars, readVars,
                  sceneVars, developer_kudos >>

\* One second has passed since u's last kudos request.
KudosWindowPasses(u) ==
  /\ u \in kudosWindow
  /\ kudosWindow' = kudosWindow \ {u}
  /\ out' = NoOut
  /\ UNCHANGED << developers, shopVars, scriptVars, authVars, gameVars, readVars,
                  sceneVars, developer_kudos, kudos, kudosRuns >>

KudosOf(giver, date) ==
  {r \in developer_kudos : r.giver_id = giver /\ r.given_date = date}

\* Lines 89-99: today, the count of the giver's rows of today, the limit.
KudosCount(p) ==
  LET k == kudos[p]
      today == clock
      count == Cardinality(KudosOf(k.giver, today))
  IN
  /\ k.pc = "count"
  /\ IF count >= DailyKudosLimit
       THEN KudosRespond(p, 429)
       ELSE /\ kudos' = [kudos EXCEPT ![p].pc = "insert", ![p].today = today]
            /\ out' = NoOut
  /\ UNCHANGED << developers, shopVars, scriptVars, authVars, gameVars, readVars,
                  sceneVars, developer_kudos, kudosWindow, kudosRuns >>

\* The primary key of developer_kudos (giver_id, receiver_id, given_date):
\* the insert of a row that is there answers 23505.
KudosConflictNever(row) == FALSE

KudosConflict(row) == row \in developer_kudos

\* Lines 101-113 and 130: the insert; a duplicate key is answered { ok: true }.
KudosInsert(p) ==
  LET k == kudos[p]
      row == [giver_id |-> k.giver, receiver_id |-> k.receiver, given_date |-> k.today]
  IN
  /\ k.pc = "insert"
  /\ IF KudosConflict(row)
       THEN KudosRespond(p, 200) /\ UNCHANGED developer_kudos
       ELSE /\ developer_kudos' = developer_kudos \cup {row}
            /\ KudosGoto(p, "increment")
  /\ UNCHANGED << developers, shopVars, scriptVars, authVars, gameVars, readVars,
                  sceneVars, kudosWindow, kudosRuns >>

\* rpc("increment_kudos_count", { target_dev_id }): kudos_count + 1.
IncrementKudosCount(p) ==
  LET k == kudos[p] IN
  /\ k.pc = "increment"
  /\ developers' = [developers EXCEPT ![k.receiver].kudos_count = @ + 1]
  /\ KudosGoto(p, "feed")
  /\ UNCHANGED << shopVars, scriptVars, authVars, gameVars, readVars,
                  sceneVars, developer_kudos, kudosWindow, kudosRuns >>

\* Lines 119-130: the kudos_given feed event and { ok: true }.
KudosFeed(p) ==
  LET k == kudos[p] IN
  /\ k.pc = "feed"
  /\ feed' = Append(feed, [event_type |-> "kudos_given", actor_id |-> k.giver,
                           target_id |-> k.receiver])
  /\ KudosRespond(p, 200)
  /\ UNCHANGED << developers, shopVars, achievements, script, scriptRuns, authVars,
                  gameVars, readVars, sceneVars, developer_kudos, kudosWindow, kudosRuns >>

\* date_trunc('week', now())::date, with day 1 the first day of a week
WeekStart(today) == today - ((today - 1) % 7)

KudosThisWeek == {r \in developer_kudos : r.given_date >= WeekStart(clock)}

\* increment_kudos_week(p_giver_id, p_receiver_id)
IncrementKudosWeek(giver, receiver) ==
  [d \in DOMAIN developers |->
     [developers[d] EXCEPT
        !.current_week_kudos_given = IF d = giver THEN @ + 1 ELSE @,
        !.current_week_kudos_received = IF d = receiver THEN @ + 1 ELSE @]]

\* refresh_weekly_kudos()
RefreshWeeklyKudos ==
  /\ developers' =
       [d \in DOMAIN developers |->
          [developers[d] EXCEPT
             !.current_week_kudos_given =
                Cardinality({r \in KudosThisWeek : r.giver_id = d}),
             !.current_week_kudos_received =
                Cardinality({r \in KudosThisWeek : r.receiver_id = d})]]
  /\ out' = NoOut
  /\ UNCHANGED << shopVars, scriptVars, authVars, gameVars, moreVars >>

\* ------------------------------------------------------------------------
\* Initial state
\* ------------------------------------------------------------------------

DevRow(d, owner, contributions, public_repos, referral_count) ==
  [github_login |-> DevLogin(d), claimed |-> owner # NoUser,
   claimed_by |-> owner, claimed_at |-> 0,
   contributions |-> contributions, public_repos |-> public_repos,
   total_stars |-> 0, kudos_count |-> 0, referral_count |-> referral_count,
   referred_by |-> NULL,
   current_week_kudos_given |-> 0, current_week_kudos_received |-> 0]

\* The tables after the migrations and the import of the developers, with
\* developer 1 claimed by owner1 (NoUser: unclaimed).
InitTables ==
  /\ purchases = {}
  /\ nextPurchase = 1
  /\ lastCheckout = {}
  /\ checkout = [p \in CheckoutProcs |-> IdleCheckout]
  /\ sessions = {}
  /\ confirmed = {}
  /\ achievements = {}
  /\ feed = << >>
  /\ script = IdleScript(ScriptOutput({}, {}, << >>))
  /\ scriptRuns = 0
  /\ clock = 1
  /\ auth = [p \in AuthProcs |-> IdleAuth]
  /\ claimLog = << >>
  /\ authRuns = 0
  /\ customizations = {}
  /\ raids = {}
  /\ raid_tags = {}
  /\ nextRaid = 1
  /\ nextTag = 1
  /\ history = {}
  /\ view = NoView
  /\ scene = NoScene
  /\ kudos = [p \in KudosProcs |-> IdleKudos]
  /\ kudosWindow = {}
  /\ kudosRuns = 0
  /\ out = NoOut

\* referral_count of the imported rows: developers outside the modelled
\* ones were referred by developer 2.
ReferralsAtImport(d) == IF d = 2 THEN 3 ELSE 0

InitDB(owner1) ==
  /\ developers = [d \in Devs |->
                     IF d = 1 THEN DevRow(1, owner1, 1, 0, ReferralsAtImport(1))
                     ELSE DevRow(2, NoUser, 0, 100, ReferralsAtImport(2))]
  /\ developer_kudos = {}
  /\ InitTables

\* Developer 1 has claimed the building and shops.
Init == InitDB("u1")

\* Nobody has signed in yet.
InitAuth == InitDB(NoUser)

\* The developers of the kudos runs: a third building, unclaimed like the
\* second, so that the owner of the first has two receivers.
KudosDevs == Devs \cup {3}

\* The rows of 19 kudos developer 1 gave on day 1 to developers that take
\* no other part here: one below the daily limit.
EarlierKudos ==
  {[giver_id |-> 1, receiver_id |-> r, given_date |-> 1] : r \in 4..(DailyKudosLimit + 2)}

InitKudosWith(rows) ==
  /\ developers = [d \in KudosDevs |->
                     IF d = 1 THEN DevRow(1, "u1", 1, 0, ReferralsAtImport(1))
                     ELSE DevRow(d, NoUser, 0, 100, ReferralsAtImport(d))]
  /\ developer_kudos = rows
  /\ InitTables

\* No kudos has been given yet.
InitKudos == InitKudosWith({})

\* Developer 1 has given 19 kudos today.
InitBusyDay == InitKudosWith(EarlierKudos)

\* ------------------------------------------------------------------------
\* The shop: concurrent checkouts, confirmations and the backfill script
\* ------------------------------------------------------------------------
Next ==
  \/ \E p \in CheckoutProcs, u \in Users \cup {NoUser}, i \in BodyItems,
        prov \in BodyProviders : CheckoutBegin(p, u, i, prov)
  \/ \E p \in CheckoutProcs : CheckoutOwned(p)
  \/ \E p \in CheckoutProcs : CheckoutPending(p)
  \/ \E p \in CheckoutProcs : CheckoutDelete(p)
  \/ \E p \in CheckoutProcs : CheckoutInsert(p)
  \/ \E p \in CheckoutProcs, ok \in BOOLEAN : CheckoutProvider(p, ok)
  \/ \E s \in sessions, r \in purchases : ConfirmPayment(s, r)
  \/ \E u \in Users : RateWindowPasses(u)

Spec == Init /\ [][Next]_vars

\* ------------------------------------------------------------------------
\* The shop with non-overlapping checkout requests (one request at a time,
\* all served as c1), and the backfill script
\* ------------------------------------------------------------------------
NoCheckoutInFlight == \A q \in CheckoutProcs : checkout[q].pc = "idle"

NextSeq ==
  \/ \E p \in {"c1"}, u \in Users \cup {NoUser}, i \in BodyItems,
        prov \in BodyProviders : NoCheckoutInFlight /\ CheckoutBegin(p, u, i, prov)
  \/ \E p \in {"c1"} : CheckoutOwned(p)
  \/ \E p \in {"c1"} : CheckoutPending(p)
  \/ \E p \in {"c1"} : CheckoutDelete(p)
  \/ \E p \in {"c1"} : CheckoutInsert(p)
  \/ \E p \in {"c1"}, ok \in BOOLEAN : CheckoutProvider(p, ok)
  \/ \E s \in sessions, r \in purchases : ConfirmPayment(s, r)
  \/ ScriptLoad
  \/ ScriptUpsert
  \/ ScriptGrant
  \/ ScriptFeed
  \/ \E u \in Users : RateWindowPasses(u)

SpecSeq == Init /\ [][NextSeq]_vars

\* ------------------------------------------------------------------------
\* Sign-in: concurrent auth callbacks
\* ------------------------------------------------------------------------
NextAuth ==
  \/ \E p \in AuthProcs, code \in BOOLEAN, u \in AuthUsers \cup {NoUser},
        ref \in Refs : AuthBegin(p, code, u, ref)
  \/ \E p \in AuthProcs : AuthClaim(p)
  \/ \E p \in AuthProcs : AuthFetch(p)
  \/ \E p \in AuthProcs : AuthReferrer(p)
  \/ \E p \in AuthProcs : AuthSetReferredBy(p)
  \/ \E p \in AuthProcs : IncrementReferralCount(p)
  \/ \E p \in AuthProcs : AuthFeed(p)
  \/ \E p \in AuthProcs : AuthReferrerCheck(p)
  \/ \E p \in AuthProcs : AuthCheck(p)
  \/ Tick

SpecAuth == InitAuth /\ [][NextAuth]_vars

\* ------------------------------------------------------------------------
\* Loadouts of the owners of reward items
\* ------------------------------------------------------------------------
NextLoadout ==
  \/ \E u \in Users \cup {NoUser}, body \in [{"crown", "roof", "aura"} -> BodyZoneItems] :
        LoadoutPost(u, body)
  \/ \E u \in Users \cup {NoUser}, vehicle \in BodyVehicles, tag \in BodyTags :
        RaidLoadoutPost(u, vehicle, tag)
  \/ ScriptLoad
  \/ ScriptUpsert
  \/ ScriptGrant
  \/ ScriptFeed

SpecLoadout == Init /\ [][NextLoadout]_vars

\* ------------------------------------------------------------------------
\* Raids: statements on the raids and raid_tags tables
\* ------------------------------------------------------------------------
NextRaid ==
  \/ \E a, d \in Devs : InsertRaid(a, d)
  \/ \E r \in raids, a, d \in Devs : UpdateRaid(r.id, a, d)
  \/ \E r \in raids, b \in Devs, active \in BOOLEAN : InsertTag(r, b, active)
  \/ \E t \in raid_tags, active \in BOOLEAN : UpdateTag(t.id, active)
  \/ \E d \in Devs : RaidHistory(d)

SpecRaid == Init /\ [][NextRaid]_vars

\* ------------------------------------------------------------------------
\* Reads of the tables the loadouts and the reward purchases fill
\* ------------------------------------------------------------------------
NextRead ==
  \/ \E u \in Users \cup {NoUser} : SelectPurchases(u)
  \/ \E u \in Users \cup {NoUser} : SelectCustomizations(u)
  \/ \E u \in Users \cup {NoUser}, d \in Devs \cup {NoId} : LoadoutGet(u, d)
  \/ \E u \in Users \cup {NoUser}, d \in Devs \cup {NoId} : RaidLoadoutGet(u, d)
  \/ \E u \in Users \cup {NoUser}, id \in 0..2 : PurchaseStatusGet(u, id)
  \/ \E u \in Users, body \in [{"crown", "roof", "aura"} -> BodyZoneItems] :
        LoadoutPost(u, body)
  \/ \E u \in Users, vehicle \in BodyVehicles, tag \in BodyTags :
        RaidLoadoutPost(u, vehicle, tag)
  \/ ScriptLoad
  \/ ScriptUpsert
  \/ ScriptGrant
  \/ ScriptFeed

SpecRead == Init /\ [][NextRead]_vars

\* ------------------------------------------------------------------------
\* Kudos: concurrent requests, the days and the weekly refresh
\* ------------------------------------------------------------------------
NextKudos ==
  \/ \E p \in KudosProcs, u \in Users \cup {NoUser}, receiver_login \in BodyReceivers :
        KudosBegin(p, u, receiver_login)
  \/ \E u \in Users : KudosWindowPasses(u)
  \/ \E p \in KudosProcs : KudosCount(p)
  \/ \E p \in KudosProcs : KudosInsert(p)
  \/ \E p \in KudosProcs : IncrementKudosCount(p)
  \/ \E p \in KudosProcs : KudosFeed(p)
  \/ RefreshWeeklyKudos
  \/ Tick

SpecKudos == InitKudos /\ [][NextKudos]_vars

\* The same requests on a day on which the giver is one kudos below the limit.
SpecKudosLimit == InitBusyDay /\ [][NextKudos]_vars

\* ------------------------------------------------------------------------
\* Rendering: buildings with any owned items and any storable loadout
\* ------------------------------------------------------------------------
NextRender ==
  \E items \in SUBSET RenderOwnable, saved \in BOOLEAN :
    \E loadout \in (IF saved THEN StorableLoadouts(items) ELSE {NoLoadout}) :
      RenderBuilding(items, saved, loadout)

SpecRender == Init /\ [][NextRender]_vars

\* ------------------------------------------------------------------------
\* Properties of the shop
\* ------------------------------------------------------------------------

CompletedOf(d, i) == PurchasesOf(d, i, "completed")

\* C1: for every developer and every item other than billboard there is at
\* most one completed purchase, under every interleaving of checkouts and
\* payment confirmations.
C1_OneCompletedPerItem ==
  \A d \in Devs, i \in Items \ {"billboard"} : Cardinality(CompletedOf(d, i)) <= 1

\* Two purchases of the same non-billboard item by one developer exist, one
\* completed and one whose session was paid and whose completion was
\* rejected (it is still pending, its session is used up).
C1_Witness ==
  \E r1, r2 \in purchases :
    /\ r1.id # r2.id
    /\ r1.developer_id = r2.developer_id /\ r1.item_id = r2.item_id
    /\ r1.item_id # "billboard"
    /\ r1.status = "completed" /\ r2.status = "pending"
    /\ r1.id \in confirmed
    /\ ~\E s \in sessions : s.developer_id = r2.developer_id /\ s.item_id = r2.item_id

\* C2 (as claimed): a confirmation of a billboard purchase of a developer
\* with more than one slot, made while another billboard purchase of that
\* developer is completed, completes it.
C2_SecondBillboardCompletes ==
  [][\A s \in sessions, r \in purchases :
       (/\ ConfirmPayment(s, r)
        /\ r.item_id = "billboard"
        /\ MaxSlots(developers[r.developer_id]) > 1
        /\ CompletedOf(r.developer_id, "billboard") # {})
         => \E q \in purchases' : q.id = r.id /\ q.status = "completed"]_vars

C10_OnePendingPerItem ==
  \A d \in Devs, i \in Items : Cardinality(PurchasesOf(d, i, "pending")) <= 1

\* A checkout has deleted the pending row a failed checkout left behind
\* (no session exists for it) and inserted its own.
C10_Witness ==
  \E p \in CheckoutProcs :
    /\ checkout[p].pc = "provider"
    /\ checkout[p].pend # NoId
    /\ checkout[p].pend \notin {r.id : r \in purchases}
    /\ checkout[p].pend \notin {s.id : s \in sessions}
    /\ \E r \in purchases : r.id = checkout[p].row /\ r.status = "pending"

\* ------------------------------------------------------------------------
\* Properties of the sign-in
\* ------------------------------------------------------------------------

ClaimsOf(d) == SelectSeq(claimLog, LAMBDA e : e.developer_id = d)

\* C5: a building is claimed at most once: of all auth callbacks for a
\* login, sequential or racing, by one user or several, exactly one claim
\* update changes the row, and claimed_by and claimed_at stay what that
\* update wrote.
C5_ClaimedAtMostOnce ==
  \A d \in Devs :
    /\ Len(ClaimsOf(d)) <= 1
    /\ developers[d].claimed <=> Len(ClaimsOf(d)) = 1
    /\ Len(ClaimsOf(d)) = 1 =>
         /\ developers[d].claimed_by = ClaimsOf(d)[1].claimed_by
         /\ developers[d].claimed_at = ClaimsOf(d)[1].claimed_at

\* Two callbacks of different users with the same login have both run the
\* claim update, and time has passed since the building was claimed.
C5_Witness ==
  /\ developers[1].claimed
  /\ clock > developers[1].claimed_at
  /\ \E p, q \in AuthProcs :
       /\ auth[p].user # auth[q].user
       /\ auth[p].login = "alice" /\ auth[q].login = "alice"
       /\ auth[p].pc \notin {"idle", "claim"}
       /\ auth[q].pc \notin {"idle", "claim"}

\* ------------------------------------------------------------------------
\* Properties of the loadouts
\* ------------------------------------------------------------------------

\* C6: a POST /api/loadout or POST /api/raid/loadout without an
\* authenticated user is answered 401 and leaves every
\* developer_customizations row as it was.
C6_UnauthenticatedRejected ==
  [][(\/ \E body \in [{"crown", "roof", "aura"} -> BodyZoneItems] :
           LoadoutPost(NoUser, body)
      \/ \E vehicle \in BodyVehicles, tag \in BodyTags :
           RaidLoadoutPost(NoUser, vehicle, tag))
       => (out' = 401 /\ customizations' = customizations)]_vars

\* An unauthenticated request was answered 401 while both a loadout and a
\* raid loadout are stored.
C6_Witness ==
  /\ out = 401
  /\ \E r \in customizations : r.item_id = "loadout"
  /\ \E r \in customizations : r.item_id = "raid_loadout"

\* ------------------------------------------------------------------------
\* Properties of the raids
\* ------------------------------------------------------------------------

\* C7: no row of raids has attacker_id = defender_id; an insert or update
\* that would make one is rejected and leaves the table unchanged.
C7_NoSelfRaid ==
  /\ [](\A r \in raids : r.attacker_id # r.defender_id)
  /\ [][(\/ \E a \in Devs : InsertRaid(a, a)
         \/ \E r \in raids, a \in Devs : UpdateRaid(r.id, a, a))
          => (raids' = raids /\ out' = 400)]_vars

\* A self-raid statement was rejected on a table that holds raids.
C7_Witness ==
  /\ out = 400
  /\ raids # {}

ActiveTagsOf(b) == {t \in raid_tags : t.building_id = b /\ t.active}

\* C8: each building has at most one active raid tag, the history route
\* reads at most one, and adding or activating a second active tag of a
\* building is rejected.
C8_OneActiveTag ==
  /\ [](\A b \in Devs : Cardinality(ActiveTagsOf(b)) <= 1 /\ Cardinality(history) <= 1)
  /\ [][(\/ \E r \in raids, b \in Devs :
              ActiveTagsOf(b) # {} /\ InsertTag(r, b, TRUE)
         \/ \E t \in raid_tags :
              ~t.active /\ ActiveTagsOf(t.building_id) # {} /\ UpdateTag(t.id, TRUE))
          => (raid_tags' = raid_tags /\ out' = 409)]_vars

\* A second active tag was rejected: the building has an active tag and an
\* inactive one.
C8_Witness ==
  /\ out = 409
  /\ \E t1, t2 \in raid_tags :
       t1.building_id = t2.building_id /\ t1.active /\ ~t2.active

\* ------------------------------------------------------------------------
\* Properties of the reads
\* ------------------------------------------------------------------------

\* C11 (as claimed): whatever a read returns of a developer's purchases or
\* customizations, the caller is the user who claimed that developer.
C11_OnlyOwnerReads ==
  \A x \in view.rows : developers[x.developer_id].claimed_by = view.caller

\* C11 (amended): a select on the tables returns only rows of developers
\* the caller has claimed; the purchase status route answers a caller whose
\* login is the developer's; the loadout routes answer every caller.
C11_ReadsByPath ==
  \A x \in view.rows :
    CASE view.path \in {"purchases", "developer_customizations"} ->
           view.caller # NoUser
           /\ developers[x.developer_id].claimed_by = view.caller
      [] view.path = "purchase_status" ->
           view.caller # NoUser
           /\ developers[x.developer_id].github_login = GithubLogin(view.caller)
      [] OTHER -> view.path \in {"loadout", "raid_loadout"}

\* An unauthenticated caller has read the saved loadout of developer 1.
C11_Witness ==
  /\ view.path = "loadout"
  /\ view.caller = NoUser
  /\ \E x \in view.rows : x.developer_id = 1

\* ------------------------------------------------------------------------
\* Properties of the rendering
\* ------------------------------------------------------------------------

Equipped(itemId) ==
  scene.saved /\ \E z \in {"crown", "roof", "aura"} : scene.loadout[z] = itemId

\* C12 (as claimed): per zone at most one item is rendered; a rendered zone
\* item is owned and is the one the saved loadout stores for its zone; a
\* zone the saved loadout sets to null shows no item; a rendered legacy
\* item is owned and equipped.
C12_OnlyEquippedRender ==
  /\ \A z \in {"crown", "roof", "aura"} :
       /\ Cardinality(scene.items \cap ZONE_ITEMS(z)) <= 1
       /\ \A i \in scene.items \cap ZONE_ITEMS(z) :
            i \in scene.owned_items /\ scene.saved /\ scene.loadout[z] = i
       /\ (scene.saved /\ scene.loadout[z] = NULL) =>
            scene.items \cap ZONE_ITEMS(z) = {}
  /\ \A i \in scene.items \cap LEGACY_ITEMS : i \in scene.owned_items /\ Equipped(i)

\* ------------------------------------------------------------------------
\* Billboard slots under concurrent checkouts
\* ------------------------------------------------------------------------

C14_DailyLimitHolds ==
  \A r \in developer_kudos :
    Cardinality(KudosOf(r.giver_id, r.given_date)) <= DailyKudosLimit

KudosReceived(d) == {r \in developer_kudos : r.receiver_id = d}

KudosEvents(d) ==
  {i \in DOMAIN feed : feed[i].event_type = "kudos_given" /\ feed[i].target_id = d}

\* The requests that inserted a row for receiver d and are at one of pcs.
KudosAt(d, pcs) == {p \in KudosProcs : kudos[p].receiver = d /\ kudos[p].pc \in pcs}

\* C19: each developer_kudos row causes exactly one increment of the
\* receiver's kudos_count and exactly one kudos_given feed event: the
\* count and the events of a receiver are the rows naming it, less those
\* whose request has inserted the row and not yet reached the increment or
\* the feed insert; a repeated kudos finds the row and changes neither.
C19_OneIncrementPerRow ==
  \A d \in DOMAIN developers :
    /\ developers[d].kudos_count
         = Cardinality(KudosReceived(d)) - Cardinality(KudosAt(d, {"increment"}))
    /\ Cardinality(KudosEvents(d))
         = Cardinality(KudosReceived(d)) - Cardinality(KudosAt(d, {"increment", "feed"}))

\* A kudos was given and recorded in full; the same giver's repeat for the
\* same receiver and day has passed the count and is about to insert.
C19_Witness ==
  \E p \in KudosProcs :
    /\ kudos[p].pc = "insert"
    /\ KudosConflict([giver_id |-> kudos[p].giver, receiver_id |-> kudos[p].receiver,
                      given_date |-> kudos[p].today])
    /\ \A q \in KudosProcs \ {p} : kudos[q].pc = "idle"
    /\ developers[kudos[p].receiver].kudos_count = 1
    /\ Cardinality(KudosEvents(kudos[p].receiver)) = 1

\* C20 (as claimed): once a kudos request that inserted a row has answered,
\* the giver's current_week_kudos_given and the receiver's
\* current_week_kudos_received count the row: with no request between its
\* insert and its answer, the two counters of every developer equal the
\* numbers of rows of the current week given and received.
C20_WeeklyCountersFollow ==
  (\A p \in KudosProcs : kudos[p].pc \in {"idle", "count", "insert"}) =>
    \A d \in DOMAIN developers :
      /\ developers[d].current_week_kudos_given
           = Cardinality({r \in KudosThisWeek : r.giver_id = d})
      /\ developers[d].current_week_kudos_received
           = Cardinality({r \in KudosThisWeek : r.receiver_id = d})

\* ------------------------------------------------------------------------
\* Properties of the referrals
\* ------------------------------------------------------------------------

\* The referral feed events made on behalf of developer d.
ReferralEvents(d) ==
  {i \in DOMAIN feed : feed[i].event_type = "referral" /\ feed[i].target_id = d}

\* The developers whose referred_by names developer r.
ReferredBy(r) == {d \in Devs : developers[d].referred_by = developers[r].github_login}

NoCallbackInFlight == \A p \in AuthProcs : auth[p].pc = "idle"

\* C15 (as claimed): a developer's referral is credited at most once: at
\* most one referral feed event names the developer as its target, and when
\* no callback is in flight the referral_count of every developer has
\* grown by the number of developers whose referred_by names it.
C15_ReferralCreditedOnce ==
  /\ \A d \in Devs : Cardinality(ReferralEvents(d)) <= 1
  /\ NoCallbackInFlight =>
       \A r \in Devs :
         developers[r].referral_count
           = ReferralsAtImport(r) + Cardinality(ReferredBy(r))

\* C16 (as claimed): no developer is its own referrer: referred_by is never
\* the developer's own login and no referral event has the developer as
\* both referrer and referred.
C16_NeverOwnReferrer ==
  /\ \A d \in Devs : developers[d].referred_by # developers[d].github_login
  /\ \A i \in DOMAIN feed :
       feed[i].event_type = "referral" => feed[i].actor_id # feed[i].target_id

\* ------------------------------------------------------------------------
\* Properties of the loadout writes
\* ------------------------------------------------------------------------

\* The item a body names for zone z is refused for developer d.
ZoneRefused(body, z, d) ==
  /\ body[z] # NULL
  /\ \/ body[z] \notin ZONE_ITEMS(z)
     \/ \A r \in purchases :
          ~(r.developer_id = d /\ r.item_id = body[z] /\ r.status = "completed")

\* C17: every stored loadout holds, for each zone, null or an item of the
\* zone's list of which the developer has a completed purchase; an owner's
\* POST /api/loadout naming a refused item is answered with the status of
\* its first refused zone in the order crown, roof, aura (400 for an item
\* not valid for the zone, 403 for a valid item not owned) and writes
\* nothing.
C17_LoadoutValidated ==
  /\ [](\A r \in customizations :
          r.item_id = "loadout" =>
            \A z \in {"crown", "roof", "aura"} :
              r.config[z] = NULL \/ ~ZoneRefused(r.config, z, r.developer_id))
  /\ [][\A u \in Users, body \in [{"crown", "roof", "aura"} -> BodyZoneItems] :
          LET d == DevByLogin(GithubLogin(u))
              first == IF ZoneRefused(body, "crown", d) THEN "crown"
                       ELSE IF ZoneRefused(body, "roof", d) THEN "roof" ELSE "aura"
          IN (/\ LoadoutPost(u, body)
              /\ OwnsBuilding(u, d)
              /\ \E z \in {"crown", "roof", "aura"} : ZoneRefused(body, z, d))
               => /\ customizations' = customizations
                  /\ out' = IF body[first] \notin ZONE_ITEMS(first) THEN 400 ELSE 403]_vars

\* The owner has stored a loadout with the flag as crown, and a later
\* request was answered 400.
C17_Witness ==
  /\ out = 400
  /\ \E r \in customizations :
       r.item_id = "loadout" /\ r.developer_id = 1 /\ r.config["crown"] = "flag"

\* The rows a step adds to, removes from or replaces in developer_customizations.
CustomizationsWritten ==
  (customizations' \ customizations) \cup (customizations \ customizations')

\* Some POST /api/loadout or POST /api/raid/loadout of user u.
LoadoutWriteBy(u) ==
  \/ \E body \in [{"crown", "roof", "aura"} -> BodyZoneItems] : LoadoutPost(u, body)
  \/ \E vehicle \in BodyVehicles, tag \in BodyTags : RaidLoadoutPost(u, vehicle, tag)

\* C18: a POST /api/loadout or POST /api/raid/loadout changes
\* developer_customizations only when its user is the claimed_by of the
\* claimed developer whose github_login is the user's login, and then only
\* rows of that developer; a user whose login's developer is claimed by
\* somebody else is answered 403 and changes nothing.
C18_OnlyOwnerWrites ==
  [][\A u \in Users \cup {NoUser} :
       LET mine == {d \in Devs : /\ developers[d].github_login = GithubLogin(u)
                                 /\ developers[d].claimed
                                 /\ developers[d].claimed_by = u}
       IN LoadoutWriteBy(u) =>
            /\ \A r \in CustomizationsWritten : u # NoUser /\ r.developer_id \in mine
            /\ (u # NoUser /\ mine = {}) => (out' = 403 /\ CustomizationsWritten = {})]_vars

\* The owner has stored a loadout and a raid loadout, no other developer
\* has a row, and the last request was answered 403.
C18_Witness ==
  /\ out = 403
  /\ \E r \in customizations : r.item_id = "loadout" /\ r.developer_id = 1
  /\ \E r \in customizations : r.item_id = "raid_loadout" /\ r.developer_id = 1
  /\ \A r \in customizations : developers[r.developer_id].claimed_by = "u1"

====
